---- MODULE Spec2Model ----
(***************************************************************************)
(* A model of the permission-checked hierarchical store of src/src/store.ts *)
(* (Store, Restrict, findPermission), of the memoizing wrapper of           *)
(* src/src/lazy.ts and of the consumer classes UserStore / AdminStore and   *)
(* the ParentStore / ChildStore pair the repository's tests declare.        *)
(*                                                                         *)
(* Representation.  A JavaScript string that is split on ':' is kept as the *)
(* sequence of its colon-free segments ("a:b" is <<"a","b">>, "" is <<"">>, *)
(* "a:" is <<"a","">>); split(':') then yields the segments, the first one   *)
(* is Head, and childKeys.join(':') is Tail.  A JavaScript value is a        *)
(* record [t, s, n]: t is the kind, s a string payload, n a number payload.  *)
(***************************************************************************)
EXTENDS Integers, Sequences, FiniteSets, TLC

\* Bounds of the exploration.
MaxOps == 2

MaxCalls == 3

----------------------------------------------------------------------------
\* Values

Undef == [t |-> "undefined", s |-> "", n |-> 0]
Null == [t |-> "null", s |-> "", n |-> 0]
Str(x) == [t |-> "string", s |-> x, n |-> 0]
Num(i) == [t |-> "number", s |-> "", n |-> i]
Bool(b) == [t |-> "boolean", s |-> "", n |-> IF b THEN 1 ELSE 0]
StoreRef(i) == [t |-> "store", s |-> "", n |-> i]
MapRef(i) == [t |-> "map", s |-> "", n |-> i]
Obj(o) == [t |-> "object", s |-> o, n |-> 0]
Arr(i) == [t |-> "array", s |-> "", n |-> i]
Fn(i) == [t |-> "function", s |-> "closure", n |-> i]
Method(name) == [t |-> "function", s |-> name, n |-> 0]

\* JavaScript truthiness (the !value test of read).
Truthy(v) ==
    CASE v.t \in {"undefined", "null"} -> FALSE
      [] v.t = "string" -> v.s # ""
      [] v.t \in {"number", "boolean"} -> v.n # 0
      [] OTHER -> TRUE

EmptyMap == [k \in {} |-> Undef]

MapGet(m, k) == IF k \in DOMAIN m THEN m[k] ELSE Undef

MapSet(m, k, v) == [x \in (DOMAIN m) \cup {k} |-> IF x = k THEN v ELSE m[x]]

----------------------------------------------------------------------------
\* The JSON object literals handed to write and writeEntries: each is the
\* sequence of its own entries in declaration order; a key is a string, kept
\* as its colon-free segments.

Objects ==
    [ xy |-> << [k |-> <<"x">>, v |-> Num(1)], [k |-> <<"y">>, v |-> Obj("z")] >>,
      z |-> << [k |-> <<"z">>, v |-> Num(2)] >>,
      credentials |-> << [k |-> <<"username">>, v |-> Str("user1")] >>,
      ctor |-> << [k |-> <<"constructor">>, v |-> Num(1)] >>,
      falsy |-> << [k |-> <<"data">>, v |-> Num(0)], [k |-> <<"x">>, v |-> Obj("z")] >>,
      empty |-> << >>,
      abc |-> << [k |-> <<"a">>, v |-> Num(1)], [k |-> <<"b">>, v |-> Obj("z")],
                 [k |-> <<"c">>, v |-> Num(3)] >>,
      blank |-> << [k |-> <<"x">>, v |-> Num(1)], [k |-> <<"">>, v |-> Num(2)] >>,
      x1 |-> << [k |-> <<"x">>, v |-> Num(1)] >>,
      y2 |-> << [k |-> <<"y">>, v |-> Num(2)] >>,
      kx |-> << [k |-> <<"k">>, v |-> Obj("x1")] >>,
      ky |-> << [k |-> <<"k">>, v |-> Obj("y2")] >> ]

ObjectEntries(o) == Objects[o]

OwnKeys(o) == {ObjectEntries(o)[i].k : i \in 1..Len(ObjectEntries(o))}

\* value?.constructor === Object: the property lookup finds an own entry named
\* "constructor" before Object.prototype.constructor.
ConstructorIsObject(v) ==
    /\ v.t = "object"
    /\ <<"constructor">> \notin OwnKeys(v.s)

\* typeof value === 'object' && !Array.isArray(value) && value !== null, on the
\* JSON values an entries object holds.
IsNonArrayObject(v) == v.t = "object"

----------------------------------------------------------------------------
\* Classes: each has the name its constructor reports and the class it
\* extends; "Function" stands for Function.prototype, the prototype of the
\* root class, whose name is the empty string.

Classes ==
    {"Store", "UserStore", "AdminStore", "ParentStore", "ChildStore", "Anon",
     "TestStoreA", "TestStoreB"}

ClassName(c) ==
    CASE c = "Store" -> "Store"
      [] c = "UserStore" -> "UserStore"
      [] c = "AdminStore" -> "AdminStore"
      [] c = "ParentStore" -> "ParentStore"
      [] c = "ChildStore" -> "ChildStore"
      [] c = "Anon" -> ""
      [] c \in {"TestStoreA", "TestStoreB"} -> "TestStore"
      [] OTHER -> ""

ClassParent(c) ==
    CASE c = "Store" -> "Function"
      [] c = "UserStore" -> "Store"
      [] c = "AdminStore" -> "Store"
      [] c = "ParentStore" -> "Store"
      [] c = "ChildStore" -> "ParentStore"
      [] c = "Anon" -> "UserStore"
      [] c \in {"TestStoreA", "TestStoreB"} -> "Store"
      [] OTHER -> "Function"

\* Members every Store instance inherits from its prototype chain; `in`
\* finds them as it finds own fields.
ProtoMembers ==
    {"constructor", "read", "write", "writeEntries", "entries", "allowedToRead", "allowedToWrite"}

----------------------------------------------------------------------------
\* Permissions and the registry

Permission == {"r", "w", "rw", "none"}

readPermissions == {"r", "rw"}

writePermissions == {"w", "rw"}

buildKey(store, key) == <<store, key>>

\* The declarations the class definitions make when they are evaluated.
ClassDeclarations ==
    [k \in { buildKey("UserStore", "name"), buildKey("AdminStore", "user"),
             buildKey("AdminStore", "name"), buildKey("AdminStore", "getCredentials"),
             buildKey("ParentStore", "parentProp"),
             buildKey("TestStore", "restrictedProp") } |->
        CASE k = buildKey("UserStore", "name") -> "rw"
          [] k = buildKey("AdminStore", "user") -> "r"
          [] k = buildKey("AdminStore", "name") -> "none"
          [] k = buildKey("AdminStore", "getCredentials") -> "rw"
          [] k = buildKey("TestStore", "restrictedProp") -> "none"
          [] OTHER -> "r"]

RegGet(reg, k) == IF k \in DOMAIN reg THEN reg[k] ELSE "undefined"

RECURSIVE walkClasses(_, _, _)
walkClasses(reg, currentClass, key) ==
    IF ClassName(currentClass) = "" \/ ClassName(currentClass) = "Object"
    THEN "undefined"
    ELSE LET permission == RegGet(reg, buildKey(ClassName(currentClass), key))
             next == ClassParent(currentClass)
         IN IF permission # "undefined" THEN permission
            ELSE IF ClassName(next) = "Store"
                 THEN RegGet(reg, buildKey("Store", key))
                 ELSE walkClasses(reg, next, key)

findPermission(reg, instance, key) == walkClasses(reg, instance.cls, key)

\* A gate that lets the default policy veto a declared permission.
allowedToReadDefaultFirst(reg, instance, key) ==
    /\ instance.defaultPolicy \in readPermissions
    /\ findPermission(reg, instance, key) \in readPermissions \cup {"undefined"}

allowedToRead(reg, instance, key) ==
    LET specificPermission == findPermission(reg, instance, key)
    IN IF specificPermission # "undefined"
       THEN specificPermission \in readPermissions
       ELSE instance.defaultPolicy \in readPermissions

allowedToWrite(reg, instance, key) ==
    LET permission == findPermission(reg, instance, key)
    IN IF permission # "undefined"
       THEN permission \in writePermissions
       ELSE instance.defaultPolicy \in writePermissions

----------------------------------------------------------------------------
\* The heap: W.stores holds the Store instances (a Store value is its index),
\* W.fns the closures stored as values (a function value is its index).

StoreRec(cls, policy, fields) ==
    [cls |-> cls, defaultPolicy |-> policy, data |-> EmptyMap, fields |-> fields]

\* lazy(fn): the wrapper's executed flag and cached value; a closure that is
\* not wrapped has memo = FALSE and runs its body on every call.  calls counts
\* the runs of the body, invoked the invocations of the wrapper.
FnRec(body, memo) ==
    [body |-> body, memo |-> memo, executed |-> FALSE, value |-> Undef, calls |-> 0,
     invoked |-> 0]

Ret(W, v) == [W |-> W, res |-> v, err |-> "none"]

Throw(W, kind) == [W |-> W, res |-> Undef, err |-> kind]

AddStore(W, rec) == [W EXCEPT !.stores = Append(@, rec)]

AddFn(W, rec) == [W EXCEPT !.fns = Append(@, rec)]

SetData(W, sid, key, v) == [W EXCEPT !.stores[sid].data = MapSet(@, key, v)]

\* new C(...): the instance the constructor of class cls leaves on the heap, as
\* its last store; user is the argument of AdminStore's constructor.
Construct(W, cls, user) ==
    CASE cls \in {"Store", "TestStoreA", "TestStoreB"} ->
            AddStore(W, StoreRec(cls, "rw", EmptyMap))
      [] cls \in {"UserStore", "Anon"} ->
            AddStore(W, StoreRec(cls, "rw", [k \in {"name"} |-> Str("John Doe")]))
      [] cls = "AdminStore" ->
            LET W1 == AddFn(W, FnRec("credentials", TRUE))
                f == Fn(Len(W1.fns))
            IN AddStore(W1, StoreRec(cls, "none",
                   [k \in {"user", "name", "getCredentials"} |->
                       CASE k = "user" -> StoreRef(user)
                         [] k = "name" -> Str("John Doe")
                         [] OTHER -> f]))
      [] OTHER ->
            LET W1 == AddFn(W, FnRec("child", TRUE))
                f == Fn(Len(W1.fns))
            IN AddStore(W1, StoreRec(cls, "rw", [k \in {"parentProp"} |-> f]))

\* Object.keys(this): the own fields of an instance.
OwnFields(this) == {"defaultPolicy", "data"} \cup DOMAIN this.fields

\* firstKey in this
InThis(this, key) == key \in OwnFields(this) \cup ProtoMembers

\* this[firstKey]
FieldValue(sid, this, key) ==
    CASE key = "defaultPolicy" -> Str(this.defaultPolicy)
      [] key = "data" -> MapRef(sid)
      [] key \in DOMAIN this.fields -> this.fields[key]
      [] key \in ProtoMembers -> Method(key)
      [] OTHER -> Undef

\* The instance `new C()` puts on a heap W: the next index.
Fresh(W) == Len(W.stores) + 1

\* A call of read or write: its frame goes on the call stack, and deepest
\* keeps the greatest height the stack had.
enter(W) ==
    [W EXCEPT !.depth = @ + 1,
              !.deepest = IF W.depth + 1 > @ THEN W.depth + 1 ELSE @]

\* The call returns or throws: its frame leaves the call stack.
leave(r) == [r EXCEPT !.W.depth = @ - 1]

RECURSIVE read(_, _, _, _)
RECURSIVE write(_, _, _, _, _)
RECURSIVE writeEntries(_, _, _, _)
RECURSIVE writeEntriesFrom(_, _, _, _, _)

\* r unless it threw, else the store id as the result.
storeOrThrow(r, id) == IF r.err # "none" THEN r ELSE Ret(r.W, StoreRef(id))

\* The bodies of the closures: AdminStore.getCredentials (a new Store filled by
\* writeEntries({ username: "user1" })), ParentStore.parentProp (a new
\* ChildStore), a caller's () => 'computed' and a caller's () => undefined.
runBody(reg, W, body) ==
    CASE body = "credentials" ->
            storeOrThrow(writeEntries(reg, Construct(W, "Store", 0), Fresh(W), "credentials"),
                         Fresh(W))
      [] body = "child" -> Ret(Construct(W, "ChildStore", 0), StoreRef(Fresh(W)))
      [] body = "nothing" -> Ret(W, Undef)
      [] OTHER -> Ret(W, Str("computed"))

\* fn(), counted.
runCounted(reg, W, id) ==
    runBody(reg, [W EXCEPT !.fns[id].calls = @ + 1], W.fns[id].body)

\* One more invocation of the wrapper.
wrapperInvoked(W, id) == [W EXCEPT !.fns[id].invoked = @ + 1]

\* A wrapper that keeps the result only when it is truthy.
lazyCacheTruthy(r, id) ==
    IF r.err # "none" THEN r
    ELSE Ret([r.W EXCEPT !.fns[id].executed = Truthy(r.res), !.fns[id].value = r.res],
             r.res)

\* value = fn(); executed = true; return value
lazyCache(r, id) ==
    IF r.err # "none" THEN r
    ELSE Ret([r.W EXCEPT !.fns[id].executed = TRUE, !.fns[id].value = r.res], r.res)

\* The wrapper lazy(fn) returns: the cached value once executed, else fn's
\* result, which it caches; a throw of fn leaves executed false.
lazy(reg, W, id) ==
    IF W.fns[id].executed THEN Ret(wrapperInvoked(W, id), W.fns[id].value)
    ELSE lazyCache(runCounted(reg, wrapperInvoked(W, id), id), id)

\* value(): a method taken off the prototype runs without its receiver and
\* throws a TypeError; a wrapped closure runs lazy's wrapper, a bare one its body.
callValue(reg, W, f) ==
    IF f.s # "closure" THEN Throw(W, "TypeError")
    ELSE IF W.fns[f.n].memo THEN lazy(reg, W, f.n)
    ELSE runCounted(reg, W, f.n)

\* let value = this.data.get(firstKey); if (!value && firstKey in this)
\* { value = this[firstKey]; this.data.set(firstKey, value) }
readSlot(W, sid, firstKey) ==
    IF ~Truthy(MapGet(W.stores[sid].data, firstKey)) /\ InThis(W.stores[sid], firstKey)
    THEN Ret(SetData(W, sid, firstKey, FieldValue(sid, W.stores[sid], firstKey)),
             FieldValue(sid, W.stores[sid], firstKey))
    ELSE Ret(W, MapGet(W.stores[sid].data, firstKey))

\* A read that hands a function value back without invoking it.
readUncalled(reg, r) == r

\* if (typeof value === 'function') value = value()
readCall(reg, r) ==
    IF r.res.t = "function" THEN callValue(reg, r.W, r.res) ELSE r

\* if (value instanceof Store && childKeys.length > 0)
\*     return value.read(childKeys.join(':')); return value
readDescend(reg, r, childKeys) ==
    IF r.err # "none" THEN r
    ELSE IF r.res.t = "store" /\ childKeys # << >>
         THEN read(reg, r.W, r.res.n, childKeys)
         ELSE r

\* A read that skips the permission gate on the first key.
readUngated(reg, W, sid, path) ==
    IF Head(path) = ""
    THEN Throw(W, "Error")
    ELSE readDescend(reg, readCall(reg, readSlot(W, sid, Head(path))), Tail(path))

\* A read whose gate asks for the write permission of the key.
readGatedByWrite(reg, W, sid, path) ==
    IF Head(path) = "" \/ ~allowedToWrite(reg, W.stores[sid], Head(path))
    THEN Throw(W, "Error")
    ELSE readDescend(reg, readCall(reg, readSlot(W, sid, Head(path))), Tail(path))

read(reg, W, sid, path) ==
    leave(IF Head(path) = "" \/ ~allowedToRead(reg, W.stores[sid], Head(path))
          THEN Throw(enter(W), "Error")
          ELSE readDescend(reg, readCall(reg, readSlot(enter(W), sid, Head(path))),
                           Tail(path)))

\* An install whose new store takes the class and the defaultPolicy of the
\* store it is installed in.
installStoreLikeParent(W, sid, firstKey) ==
    SetData(AddStore(W, StoreRec(W.stores[sid].cls, W.stores[sid].defaultPolicy, EmptyMap)),
            sid, firstKey, StoreRef(Fresh(W)))

\* nestedStore = new Store(); this.data.set(firstKey, nestedStore)
installStore(W, sid, firstKey) ==
    SetData(Construct(W, "Store", 0), sid, firstKey, StoreRef(Fresh(W)))

\* The intermediate step of write, r being this.read(firstKey).
writeNested(reg, r, sid, firstKey, childKeys, value) ==
    IF r.err # "none" THEN r
    ELSE IF r.res.t = "store"
         THEN write(reg, r.W, r.res.n, childKeys, value)
         ELSE write(reg, installStore(r.W, sid, firstKey), Fresh(r.W), childKeys, value)

\* A leaf write that assigns the instance's defaultPolicy field when the key
\* names it.
writeLeafToField(W, sid, firstKey, value) ==
    IF firstKey = "defaultPolicy" /\ value.s \in Permission
    THEN Ret([W EXCEPT !.stores[sid].defaultPolicy = value.s], value)
    ELSE Ret(SetData(W, sid, firstKey, value), value)

\* this.data.set(firstKey, value); return value
writeLeaf(W, sid, firstKey, value) == Ret(SetData(W, sid, firstKey, value), value)

\* value = nestedStore, r being nestedStore.writeEntries(value), then the set.
writePromoted(r, sid, firstKey, nestedStore) ==
    IF r.err # "none" THEN r ELSE writeLeaf(r.W, sid, firstKey, StoreRef(nestedStore))

\* A write that asks for write permission on the slots it steps through.
writeGatedThroughout(reg, W, sid, path, value) ==
    IF Head(path) = "" \/ ~allowedToWrite(reg, W.stores[sid], Head(path))
    THEN Throw(W, "Error")
    ELSE IF Tail(path) # << >>
         THEN writeNested(reg, read(reg, W, sid, <<Head(path)>>), sid, Head(path),
                          Tail(path), value)
         ELSE IF ConstructorIsObject(value)
              THEN writePromoted(
                       writeEntries(reg, Construct(W, "Store", 0), Fresh(W), value.s),
                       sid, Head(path), Fresh(W))
              ELSE writeLeaf(W, sid, Head(path), value)

\* A write that sets the leaf entry before it asks for the permission.
writeSetFirst(reg, W, sid, path, value) ==
    IF Tail(path) # << >>
    THEN IF Head(path) = "" \/ ~allowedToRead(reg, W.stores[sid], Head(path))
         THEN Throw(W, "Error")
         ELSE writeNested(reg, read(reg, W, sid, <<Head(path)>>), sid, Head(path),
                          Tail(path), value)
    ELSE IF Head(path) = "" \/ ~allowedToWrite(reg, W.stores[sid], Head(path))
         THEN Throw(SetData(W, sid, Head(path), value), "Error")
         ELSE IF ConstructorIsObject(value)
              THEN writePromoted(
                       writeEntries(reg, Construct(W, "Store", 0), Fresh(W), value.s),
                       sid, Head(path), Fresh(W))
              ELSE writeLeaf(W, sid, Head(path), value)

\* A write whose leaf step does not test the key for emptiness.
writeBlankLeaf(reg, W, sid, path, value) ==
    IF Tail(path) # << >>
    THEN IF Head(path) = "" \/ ~allowedToRead(reg, W.stores[sid], Head(path))
         THEN Throw(W, "Error")
         ELSE writeNested(reg, read(reg, W, sid, <<Head(path)>>), sid, Head(path),
                          Tail(path), value)
    ELSE IF ~allowedToWrite(reg, W.stores[sid], Head(path))
         THEN Throw(W, "Error")
         ELSE IF ConstructorIsObject(value)
              THEN writePromoted(
                       writeEntries(reg, Construct(W, "Store", 0), Fresh(W), value.s),
                       sid, Head(path), Fresh(W))
              ELSE writeLeaf(W, sid, Head(path), value)

write(reg, W, sid, path, value) ==
    leave(
    IF Tail(path) # << >>
    THEN IF Head(path) = "" \/ ~allowedToRead(reg, W.stores[sid], Head(path))
         THEN Throw(enter(W), "Error")
         ELSE writeNested(reg, read(reg, enter(W), sid, <<Head(path)>>), sid, Head(path),
                          Tail(path), value)
    ELSE IF Head(path) = "" \/ ~allowedToWrite(reg, W.stores[sid], Head(path))
         THEN Throw(enter(W), "Error")
         ELSE IF ConstructorIsObject(value)
              THEN writePromoted(
                       writeEntries(reg, Construct(enter(W), "Store", 0), Fresh(W), value.s),
                       sid, Head(path), Fresh(W))
              ELSE writeLeaf(enter(W), sid, Head(path), value))

\* store.writeEntries(value), w being this.write(key, store).
writeEntryNested(reg, w, store, value) ==
    IF w.err # "none" THEN w ELSE writeEntries(reg, w.W, store, value.s)

\* A turn that fills the Store the key already holds, when it holds one, in
\* place of a new one.
writeEntryMerging(reg, W, sid, key, value) ==
    IF IsNonArrayObject(value)
    THEN IF MapGet(W.stores[sid].data, Head(key)).t = "store"
         THEN writeEntries(reg, W, MapGet(W.stores[sid].data, Head(key)).n, value.s)
         ELSE writeEntryNested(reg, write(reg, Construct(W, "Store", 0), sid, key,
                                          StoreRef(Fresh(W))),
                               Fresh(W), value)
    ELSE write(reg, W, sid, key, value)

\* One turn of the loop of writeEntries.
writeEntry(reg, W, sid, key, value) ==
    IF IsNonArrayObject(value)
    THEN writeEntryNested(reg, write(reg, Construct(W, "Store", 0), sid, key,
                                     StoreRef(Fresh(W))),
                          Fresh(W), value)
    ELSE write(reg, W, sid, key, value)

\* The loop goes on unless the turn threw.
writeEntriesNext(reg, r, sid, es, i) ==
    IF r.err # "none" THEN r ELSE writeEntriesFrom(reg, r.W, sid, es, i + 1)

writeEntriesFrom(reg, W, sid, es, i) ==
    IF i > Len(es) THEN Ret(W, Undef)
    ELSE writeEntriesNext(reg, writeEntry(reg, W, sid, es[i].k, es[i].v), sid, es, i)

\* r, or its error on the heap W the call started from.
rolledBack(W, r) == IF r.err # "none" THEN Throw(W, r.err) ELSE r

\* A writeEntries that undoes the pairs written when a later pair fails.
writeEntriesAtomic(reg, W, sid, entries) ==
    rolledBack(W, writeEntriesFrom(reg, W, sid, ObjectEntries(entries), 1))

writeEntries(reg, W, sid, entries) ==
    writeEntriesFrom(reg, W, sid, ObjectEntries(entries), 1)

\* An enumeration of the own fields that leaves the permission filter out.
entriesUnfiltered(reg, W, sid) ==
    [key \in OwnFields(W.stores[sid]) |-> FieldValue(sid, W.stores[sid], key)]

\* entries(): the readable own fields with their values.
entries(reg, W, sid) ==
    LET this == W.stores[sid]
    IN [key \in {k \in OwnFields(this) : allowedToRead(reg, this, k)} |->
           FieldValue(sid, this, key)]

----------------------------------------------------------------------------
\* State

VARIABLES
    restrictedMap,  \* the registry: key -> Permission
    stores,         \* the Store instances
    fns,            \* the closures
    ops,            \* operations performed
    last            \* the last operation, its arguments and its outcome

vars == <<restrictedMap, stores, fns, ops, last>>

World == [stores |-> stores, fns |-> fns, depth |-> 0, deepest |-> 0]

Last(op, s, cls, path, val, r) ==
    [op |-> op, s |-> s, cls |-> cls, path |-> path, val |-> val,
     res |-> r.res, err |-> r.err, ent |-> EmptyMap, key |-> << >>,
     depth |-> r.W.deepest]

\* The program's instances: a UserStore, an AdminStore over it, a bare Store, a
\* ChildStore and an instance of an anonymous class extending UserStore; and a
\* caller's closure () => 'computed' and a caller's wrapper lazy(() => undefined).
InitWorld ==
    LET W1 == Construct([stores |-> << >>, fns |-> << >>, depth |-> 0, deepest |-> 0],
                        "UserStore", 0)
        W2 == Construct(W1, "AdminStore", 1)
        W3 == Construct(W2, "Store", 0)
        W4 == Construct(W3, "ChildStore", 0)
        W5 == Construct(W4, "Anon", 0)
    IN AddFn(AddFn(W5, FnRec("computed", FALSE)), FnRec("nothing", TRUE))

User == 1
Admin == 2
Plain == 3
Child == 4
AnonUser == 5
TestA == 6
TestB == 7
Computed == 3
Nothing == 4

Init ==
    /\ restrictedMap = ClassDeclarations
    /\ stores = InitWorld.stores
    /\ fns = InitWorld.fns
    /\ ops = 0
    /\ last = Last("init", 0, "", << >>, Undef, Ret(InitWorld, Undef))

\* An operation of the engine took place: its heap and its outcome.
Apply(op, s, path, value, r) ==
    /\ stores' = r.W.stores
    /\ fns' = r.W.fns
    /\ ops' = ops + 1
    /\ last' = Last(op, s, "", path, value, r)
    /\ UNCHANGED restrictedMap

----------------------------------------------------------------------------
\* Operations

Read(s, path) ==
    /\ ops < MaxOps
    /\ Apply("read", s, path, Undef, read(restrictedMap, World, s, path))

Write(s, path, value) ==
    /\ ops < MaxOps
    /\ Apply("write", s, path, value, write(restrictedMap, World, s, path, value))

WriteEntries(s, o) ==
    /\ ops < MaxOps
    /\ Apply("writeEntries", s, << >>, Obj(o), writeEntries(restrictedMap, World, s, o))

Entries(s) ==
    /\ ops < MaxOps
    /\ ops' = ops + 1
    /\ last' = [Last("entries", s, "", << >>, Undef, Ret(World, Undef))
                   EXCEPT !.ent = entries(restrictedMap, World, s)]
    /\ UNCHANGED <<restrictedMap, stores, fns>>

AllowedToRead(s, key) ==
    /\ ops < MaxOps
    /\ ops' = ops + 1
    /\ last' = Last("allowedToRead", s, "", <<key>>, Undef,
                    Ret(World, Bool(allowedToRead(restrictedMap, stores[s], key))))
    /\ UNCHANGED <<restrictedMap, stores, fns>>

AllowedToWrite(s, key) ==
    /\ ops < MaxOps
    /\ ops' = ops + 1
    /\ last' = Last("allowedToWrite", s, "", <<key>>, Undef,
                    Ret(World, Bool(allowedToWrite(restrictedMap, stores[s], key))))
    /\ UNCHANGED <<restrictedMap, stores, fns>>

FindPermission(s, key) ==
    /\ ops < MaxOps
    /\ ops' = ops + 1
    /\ last' = LET p == findPermission(restrictedMap, stores[s], key)
               IN Last("findPermission", s, "", <<key>>, Undef,
                       Ret(World, IF p = "undefined" THEN Undef ELSE Str(p)))
    /\ UNCHANGED <<restrictedMap, stores, fns>>

\* store.defaultPolicy = permission
SetDefaultPolicy(s, permission) ==
    /\ ops < MaxOps
    /\ ops' = ops + 1
    /\ stores' = [stores EXCEPT ![s].defaultPolicy = permission]
    /\ last' = Last("setDefaultPolicy", s, "", << >>, Str(permission), Ret(World, Undef))
    /\ UNCHANGED <<restrictedMap, fns>>

\* A string is truthy unless it is empty; NoPath is the omitted argument.
NoPath == << >>

TruthyPath(restrictPath) == restrictPath # NoPath /\ restrictPath # <<"">>

\* The map after Restrict(permission, restrictPath)(target, propertyKey); the
\* target is a class (its prototype or an instance of it) or "bare", an object
\* whose constructor has no name.
restrict(reg, permission, restrictPath, target, propertyKey) ==
    LET reg1 == IF TruthyPath(restrictPath)
                THEN MapSet(reg, restrictPath, permission) ELSE reg
    IN IF ClassName(target) = "" THEN reg1
       ELSE MapSet(reg1, buildKey(ClassName(target), propertyKey), permission)

Restrict(permission, restrictPath, target, propertyKey) ==
    /\ ops < MaxOps
    /\ ops' = ops + 1
    /\ restrictedMap' = restrict(restrictedMap, permission, restrictPath, target, propertyKey)
    /\ last' = [Last("Restrict", 0, target, <<propertyKey>>, Str(permission),
                     Ret(World, Undef)) EXCEPT !.key = restrictPath]
    /\ UNCHANGED <<stores, fns>>

\* Restrict(permission, restrictPath) whose decorator is never applied.
RestrictPath(permission, restrictPath) ==
    /\ ops < MaxOps
    /\ ops' = ops + 1
    /\ restrictedMap' = IF TruthyPath(restrictPath)
                        THEN MapSet(restrictedMap, restrictPath, permission)
                        ELSE restrictedMap
    /\ last' = Last("RestrictPath", 0, "", restrictPath, Str(permission), Ret(World, Undef))
    /\ UNCHANGED <<stores, fns>>

----------------------------------------------------------------------------
\* The calls the callers make: the engine's specification

Primitives == {Str("v"), Str(""), Num(0), Null}

PlainValues ==
    Primitives \cup
    { Undef, Arr(1), StoreRef(Plain), StoreRef(User), Fn(Computed),
      Obj("xy"), Obj("ctor"), Obj("falsy"), Obj("empty"), Obj("blank") }

ReadInputs ==
    ({User} \X { <<"name">>, <<"a">>, <<"a", "b">> })
    \cup ({Admin} \X { <<"name">>, <<"user", "name">>, <<"getCredentials">>,
                       <<"getCredentials", "username">>, <<"profile", "name">> })
    \cup ({Plain} \X { <<"a">>, <<"a", "b">>, <<"a", "b", "c">>, <<"">>,
                       <<"a", "", "b">>, <<"a", "">>, <<"data">>, <<"read">>,
                       <<"defaultPolicy">>, <<"a", "a", "a">>, <<"k", "x">> })
    \cup ({Child} \X { <<"parentProp">>, <<"parentProp", "parentProp">> })

WriteInputs ==
    ({User} \X { <<"name">> } \X Primitives)
    \cup ({User} \X { <<"a", "b">> } \X { Str("v") })
    \cup ({Admin} \X { <<"name">>, <<"profile", "name">>, <<"user", "profile", "name">>,
                       <<"getCredentials", "username">> } \X { Str("v") })
    \cup ({Admin} \X { <<"user", "name">> } \X { Str("") })
    \cup ({Plain} \X { <<"a">> } \X PlainValues)
    \cup ({Plain} \X { <<"a", "b">> } \X { Str("v"), Num(0), Obj("xy") })
    \cup ({Plain} \X { <<"a", "b", "c">>, <<"">>, <<"a", "">>, <<"", "a">>,
                       <<"read", "b">>, <<"data">> } \X { Str("v") })
    \cup ({Plain} \X { <<"data">>, <<"a", "data">>, <<"a", "b", "data">> } \X { Num(0) })
    \cup ({Child} \X { <<"parentProp">>, <<"parentProp", "a">> } \X { Str("v") })
    \cup ({Plain, User} \X { <<"defaultPolicy">> } \X { Str("none") })
    \cup ({Plain} \X { <<"k">> } \X { Obj("x1"), Obj("y2") })

WriteEntriesInputs ==
    ({Plain} \X { "xy", "ctor", "falsy", "empty", "credentials", "abc", "blank",
                   "kx", "ky" })
    \cup ({User, Admin} \X { "xy" })

PolicyInputs == {Plain} \X Permission

RestrictInputs == Permission \X {NoPath} \X {"Store"} \X {"a", "b"}

Next ==
    \/ \E i \in ReadInputs : Read(i[1], i[2])
    \/ \E i \in WriteInputs : Write(i[1], i[2], i[3])
    \/ \E i \in WriteEntriesInputs : WriteEntries(i[1], i[2])
    \/ \E s \in {User, Admin, Plain, Child} : Entries(s)
    \/ \E i \in PolicyInputs : SetDefaultPolicy(i[1], i[2])
    \/ \E i \in RestrictInputs : Restrict(i[1], i[2], i[3], i[4])
    \/ \E s \in {Admin, Plain}, k \in {"a", "name"} : AllowedToRead(s, k)
    \/ \E s \in {Admin, Plain}, k \in {"a", "name"} : AllowedToWrite(s, k)

Spec == Init /\ [][Next]_vars

----------------------------------------------------------------------------
\* The permission system's specification: declarations, default policies and
\* the three queries, over every instance.

Instances == {User, Admin, Plain, Child, AnonUser}

Fields == {"name", "parentProp", "a"}

Targets == {"Store", "UserStore", "ParentStore", "ChildStore", "Anon", "bare"}

ExplicitKeys == { <<"custom", "path", "key">>, <<"UserStore", "name">>, <<"">> }

NextPerm ==
    \/ \E p \in Permission, t \in Targets, f \in Fields : Restrict(p, NoPath, t, f)
    \/ \E p \in Permission, k \in ExplicitKeys : Restrict(p, k, "bare", "a")
    \/ \E p \in {"r", "none"} : Restrict(p, <<"custom", "path", "key">>, "UserStore", "name")
    \/ \E p \in Permission, k \in ExplicitKeys : RestrictPath(p, k)
    \/ \E s \in Instances, p \in Permission : SetDefaultPolicy(s, p)
    \/ \E s \in Instances, f \in Fields : AllowedToRead(s, f)
    \/ \E s \in Instances, f \in Fields : AllowedToWrite(s, f)
    \/ \E s \in Instances, f \in Fields : FindPermission(s, f)

SpecPerm == Init /\ [][NextPerm]_vars

----------------------------------------------------------------------------
\* The lazy values' specification: wrappers invoked directly, function values
\* written to a store and read again and again.

\* wrapper(): an invocation of the function lazy returned.
Call(id) ==
    /\ ops < MaxCalls
    /\ Apply("call", id, << >>, Undef, lazy(restrictedMap, World, id))

ReadAgain(s, path) ==
    /\ ops < MaxCalls
    /\ Apply("read", s, path, Undef, read(restrictedMap, World, s, path))

WriteAgain(s, path, value) ==
    /\ ops < MaxCalls
    /\ Apply("write", s, path, value, write(restrictedMap, World, s, path, value))

Wrappers == {1, 2, Nothing}

LazyReadInputs ==
    ({Admin} \X { <<"getCredentials">> })
    \cup ({Child} \X { <<"parentProp">> })
    \cup ({Plain} \X { <<"k">>, <<"lz">> })

LazyWriteInputs ==
    ({Plain} \X { <<"k">> } \X { Fn(Computed), Str("v") })
    \cup ({Plain} \X { <<"lz">> } \X { Fn(Nothing) })

NextLazy ==
    \/ \E id \in Wrappers : Call(id)
    \/ \E i \in LazyReadInputs : ReadAgain(i[1], i[2])
    \/ \E i \in LazyWriteInputs : WriteAgain(i[1], i[2], i[3])

SpecLazy == Init /\ [][NextLazy]_vars

----------------------------------------------------------------------------
\* The class-qualified declarations' specification: two classes that the
\* program declares under one name, TestStore, next to UserStore and Store.

NamedTargets == {"TestStoreA", "TestStoreB", "UserStore", "Store"}

NamedInstances == {TestA, TestB, User, Plain}

NamedFields == {"restrictedProp", "name"}

\* The instances of the two classes named TestStore, next to the others.
NamesWorld == Construct(Construct(InitWorld, "TestStoreA", 0), "TestStoreB", 0)

InitNames ==
    /\ restrictedMap = ClassDeclarations
    /\ stores = NamesWorld.stores
    /\ fns = NamesWorld.fns
    /\ ops = 0
    /\ last = Last("init", 0, "", << >>, Undef, Ret(NamesWorld, Undef))

NextNames ==
    \/ \E p \in Permission, t \in NamedTargets, f \in NamedFields : Restrict(p, NoPath, t, f)
    \/ \E s \in NamedInstances, f \in NamedFields : AllowedToRead(s, f)
    \/ \E s \in NamedInstances, f \in NamedFields : AllowedToWrite(s, f)

SpecNames == InitNames /\ [][NextNames]_vars

----------------------------------------------------------------------------
\* Claims

\* The classes of an instance's chain, most derived first, the root Store last.
RECURSIVE Chain(_)
Chain(c) == IF c = "Function" THEN << >> ELSE <<c>> \o Chain(ClassParent(c))

\* A class has a declaration for a field when the registry holds the key of
\* its name and the field; a class without a name has none.
Declares(c, f) == ClassName(c) # "" /\ buildKey(ClassName(c), f) \in DOMAIN restrictedMap

\* The declaration of the nearest class of the chain that has one.
NearestDeclaration(c, f) ==
    LET ch == Chain(c)
        hits == {i \in 1..Len(ch) : Declares(ch[i], f)}
    IN IF hits = {} THEN "undefined"
       ELSE restrictedMap[buildKey(ClassName(ch[CHOOSE i \in hits : \A j \in hits : i <= j]), f)]

\* The permission in force for a field of an instance: the resolved one, else
\* the instance's default policy.
Effective(s, f) ==
    IF findPermission(restrictedMap, stores[s], f) # "undefined"
    THEN findPermission(restrictedMap, stores[s], f)
    ELSE stores[s].defaultPolicy

QueryKeys == Fields \cup {"user"}

\* C1: for every instance s and field f, with P the permission resolved for f
\* if there is one and s.defaultPolicy otherwise, allowedToRead(f) is true
\* exactly when P is 'r' or 'rw' and allowedToWrite(f) exactly when P is 'w' or
\* 'rw'; the answers the two queries gave say the same.
C1_PermissionDecides ==
    /\ \A s \in 1..Len(stores), f \in QueryKeys :
          LET P == Effective(s, f)
          IN /\ allowedToRead(restrictedMap, stores[s], f) = (P \in {"r", "rw"})
             /\ allowedToWrite(restrictedMap, stores[s], f) = (P \in {"w", "rw"})
    /\ last.op = "allowedToRead" =>
          last.res = Bool(Effective(last.s, last.path[1]) \in {"r", "rw"})
    /\ last.op = "allowedToWrite" =>
          last.res = Bool(Effective(last.s, last.path[1]) \in {"w", "rw"})

\* C1's case: a declaration grants a read the default policy denies, or denies
\* a write the default policy grants.
C1_Witness ==
    \/ /\ last.op = "allowedToRead"
       /\ last.res = Bool(TRUE)
       /\ stores[last.s].defaultPolicy = "none"
    \/ /\ last.op = "allowedToWrite"
       /\ last.res = Bool(FALSE)
       /\ stores[last.s].defaultPolicy = "rw"

\* C2: findPermission(instance, field) is the declaration of the nearest class
\* of the instance's chain, from its own class up to and including the root
\* Store, that has a registry entry for the field, and undefined exactly when
\* no class of the chain has one.
C2_NearestDeclaration ==
    last.op = "findPermission" =>
        last.res = LET p == NearestDeclaration(stores[last.s].cls, last.path[1])
                   IN IF p = "undefined" THEN Undef ELSE Str(p)

\* C3: on a store whose defaultPolicy is 'none' and whose class chain declares
\* nothing for the first segment of the path, every read and every write of
\* that path fails with an error, whatever the number of segments.
C3_DeniedByDefault ==
    ( /\ last.op \in {"read", "write"}
      /\ last.path # << >>
      /\ stores[last.s].defaultPolicy = "none"
      /\ NearestDeclaration(stores[last.s].cls, Head(last.path)) = "undefined" )
    => last.err # "none"

\* C3's case: a multi-segment read and a write were refused on such a store.
C3_Witness ==
    /\ last.op = "read"
    /\ Len(last.path) > 1
    /\ stores[last.s].defaultPolicy = "none"
    /\ NearestDeclaration(stores[last.s].cls, Head(last.path)) = "undefined"
    /\ last.err = "Error"

PrimitiveOrStore(v) == v.t \in {"string", "number", "boolean", "null", "store"}

AllNonEmpty(path) == \A i \in 1..Len(path) : path[i] # ""

\* The read of the path just written, issued with no intervening write.
ReadBack == read(restrictedMap, World, last.s, last.path)

\* C4: when write(p, v) succeeded for a primitive or Store value v, a read(p)
\* with no intervening write returns the identical value.
C4_RoundTrip ==
    ( /\ last.op = "write"
      /\ last.err = "none"
      /\ PrimitiveOrStore(last.val)
      /\ ReadBack.err = "none" )
    => ReadBack.res = last.val

\* C5: after a successful write of a primitive or Store value to a path of
\* several non-empty segments, the read of the same path returns the value and
\* every proper prefix of the path reads as a Store.
C5_NestedRoundTrip ==
    ( /\ last.op = "write"
      /\ last.err = "none"
      /\ Len(last.path) > 1
      /\ AllNonEmpty(last.path)
      /\ PrimitiveOrStore(last.val)
      /\ ReadBack.err = "none" )
    => /\ ReadBack.res = last.val
       /\ \A i \in 1..(Len(last.path) - 1) :
             read(restrictedMap, World, last.s, SubSeq(last.path, 1, i)).res.t = "store"

\* The stores in which the segments of a path are resolved, from store s on:
\* each segment but the last leads to the Store it reads as.
RECURSIVE WalkStores(_, _, _)
WalkStores(W, s, path) ==
    IF Len(path) <= 1 THEN <<s>>
    ELSE LET r == read(restrictedMap, W, s, <<Head(path)>>)
         IN IF r.err = "none" /\ r.res.t = "store"
            THEN <<s>> \o WalkStores(r.W, r.res.n, Tail(path))
            ELSE <<s>>

\* Every intermediate segment is readable in its store and the leaf segment
\* is writable in the leaf store.
PathPermitted(s, path) ==
    LET ss == WalkStores(World, s, path)
        n == Len(path)
    IN /\ Len(ss) = n
       /\ \A i \in 1..(n - 1) : allowedToRead(restrictedMap, stores[ss[i]], path[i])
       /\ allowedToWrite(restrictedMap, stores[ss[n]], path[n])

\* C6: a multi-segment write succeeds only if every intermediate segment is
\* readable in the store that resolves it and the leaf is writable in the leaf
\* store; and when that is so, for non-empty segments, it is not refused,
\* whatever the write permission of the intermediate segments.
C6_ReadGateOnIntermediates ==
    ( last.op = "write" /\ Len(last.path) > 1 )
    => /\ last.err = "none" => PathPermitted(last.s, last.path)
       /\ ( /\ AllNonEmpty(last.path)
            /\ ~ConstructorIsObject(last.val)
            /\ PathPermitted(last.s, last.path) ) => last.err # "Error"

\* C6's case: a write went through an intermediate segment that is readable
\* but not writable.
C6_Witness ==
    /\ last.op = "write"
    /\ last.err = "none"
    /\ Len(last.path) > 1
    /\ allowedToRead(restrictedMap, stores[last.s], Head(last.path))
    /\ ~allowedToWrite(restrictedMap, stores[last.s], Head(last.path))

\* The leaves of a plain object: the path of keys to each value that is not
\* itself a plain object.
RECURSIVE Leaves(_)
Leaves(o) ==
    UNION { IF ObjectEntries(o)[i].v.t = "object"
            THEN {[p |-> ObjectEntries(o)[i].k \o l.p, v |-> l.v] :
                     l \in Leaves(ObjectEntries(o)[i].v.s)}
            ELSE {[p |-> ObjectEntries(o)[i].k, v |-> ObjectEntries(o)[i].v]} :
            i \in 1..Len(ObjectEntries(o)) }

ReadsAs(s, path, v) ==
    /\ read(restrictedMap, World, s, path).err = "none"
    /\ read(restrictedMap, World, s, path).res = v

\* C7: after a successful write of a plain object at key k, k reads as a
\* Store and every leaf of the object, at any depth, reads under k as the
\* value it has in the object; after a successful writeEntries of a plain
\* object, every leaf reads as its value.
C7_RecursivePromotion ==
    /\ ( last.op = "write" /\ last.err = "none" /\ last.val.t = "object" )
       => /\ ReadBack.res.t = "store"
          /\ \A l \in Leaves(last.val.s) : ReadsAs(last.s, last.path \o l.p, l.v)
    /\ ( last.op = "writeEntries" /\ last.err = "none" )
       => \A l \in Leaves(last.val.s) : ReadsAs(last.s, l.p, l.v)

\* C8: in every reachable state no data map of any store holds a raw plain
\* object.
C8_NoRawObjectStored ==
    \A s \in 1..Len(stores) :
        \A k \in DOMAIN stores[s].data : stores[s].data[k].t # "object"

\* C9: after a successful single-segment write(k, v) the value in data[k] is
\* the value returned; it is a Store when v is a plain object and v itself
\* otherwise.
C9_StoredIsReturned ==
    ( last.op = "write" /\ last.err = "none" /\ Len(last.path) = 1 )
    => /\ MapGet(stores[last.s].data, last.path[1]) = last.res
       /\ IF last.val.t = "object"
          THEN last.res.t = "store"
          ELSE last.res = last.val

\* The result of invoking the function found in a slot.
Invoked(slot) == callValue(restrictedMap, World, slot).res

\* C10: a successful read never returns a function; when the slot of the
\* first key holds a function, the read returns the result of invoking it,
\* or, when that result is a Store and segments remain, what the rest of the
\* path reads as in that Store.
C10_FunctionsAreInvoked ==
    ( last.op = "read" /\ last.err = "none" )
    => /\ last.res.t # "function"
       /\ MapGet(stores[last.s].data, Head(last.path)).t = "function"
          => LET produced == Invoked(MapGet(stores[last.s].data, Head(last.path)))
             IN IF produced.t = "store" /\ Tail(last.path) # << >>
                THEN last.res = read(restrictedMap, World, produced.n, Tail(last.path)).res
                ELSE last.res = produced

\* C10's case: read("getCredentials:username") on the admin store yields the
\* username held by the Store the function produced.
C10_Witness ==
    /\ last.op = "read"
    /\ last.s = Admin
    /\ last.path = <<"getCredentials", "username">>
    /\ last.err = "none"
    /\ last.res = Str("user1")
    /\ fns[1].executed

\* C11: when a read of a key whose slot holds a function is followed at once
\* by another read of the same key of the same store, the second read runs no
\* computation and returns what the first returned.
C11_CachedOnFirstAccess ==
    [][ ( /\ last.op = "read"
          /\ last.err = "none"
          /\ Len(last.path) = 1
          /\ MapGet(stores[last.s].data, Head(last.path)).t = "function"
          /\ ops' = ops + 1
          /\ last'.op = "read"
          /\ last'.s = last.s
          /\ last'.path = last.path )
        => /\ \A id \in 1..Len(fns) : fns'[id].calls = fns[id].calls
           /\ last'.err = "none"
           /\ last'.res = last.res ]_vars

\* C12: the function wrapped by lazy runs at most once; once it has run, the
\* cached result never changes and every invocation of the wrapper returns
\* it, whatever the result is.
C12_LazyRunsOnce ==
    [][ \A id \in 1..Len(fns) :
          fns[id].memo =>
             /\ fns'[id].calls <= 1
             /\ fns[id].executed =>
                   /\ fns'[id].executed
                   /\ fns'[id].value = fns[id].value
                   /\ fns'[id].calls = fns[id].calls
             /\ ( last'.op = "call" /\ last'.s = id /\ ops' = ops + 1 /\ last'.err = "none" )
                => /\ last'.res = fns'[id].value
                   /\ fns'[id].executed ]_vars

\* C12's case: the wrapper of a function returning undefined was invoked at
\* least twice, the function ran once, and the invocation returned undefined.
C12_Witness ==
    /\ last.op = "call"
    /\ last.s = Nothing
    /\ last.res = Undef
    /\ fns[Nothing].invoked >= 2
    /\ fns[Nothing].calls = 1

\* C13: entries() returns exactly the own fields of the instance, defaultPolicy
\* and data included, whose effective permission grants read, each with the
\* field's current value, and changes neither a store, a closure nor the
\* registry.
C13_EntriesAreReadableFields ==
    [][ ( last'.op = "entries" /\ ops' = ops + 1 )
        => /\ DOMAIN last'.ent =
                 {f \in OwnFields(stores[last'.s]) : Effective(last'.s, f) \in {"r", "rw"}}
           /\ \A f \in DOMAIN last'.ent :
                 last'.ent[f] = FieldValue(last'.s, stores[last'.s], f)
           /\ stores' = stores
           /\ fns' = fns
           /\ restrictedMap' = restrictedMap ]_vars

\* C13's case: entries() of the admin store keeps the field declared 'r' and
\* leaves out the field declared 'none' and the fields the default denies.
C13_Witness ==
    /\ last.op = "entries"
    /\ last.s = Admin
    /\ "user" \in DOMAIN last.ent
    /\ last.ent["user"] = StoreRef(User)
    /\ "name" \notin DOMAIN last.ent
    /\ "data" \notin DOMAIN last.ent

\* The nearest class of the chain of c that declares f in registry reg, ""
\* when none does.
NearestClass(reg, c, f) ==
    LET ch == Chain(c)
        hits == {i \in 1..Len(ch) :
                    ClassName(ch[i]) # "" /\ buildKey(ClassName(ch[i]), f) \in DOMAIN reg}
    IN IF hits = {} THEN "" ELSE ch[CHOOSE i \in hits : \A j \in hits : i <= j]

\* C14: when a declaration is applied to field f of a class, every existing
\* instance whose nearest declaring class for f is that class answers
\* allowedToRead/allowedToWrite by the new rule at once, and every other
\* instance answers as before.
C14_RedeclarationVisible ==
    [][ ( last'.op = "Restrict" /\ ops' = ops + 1 /\ ClassName(last'.cls) # "" )
        => \A s \in Instances :
              IF NearestClass(restrictedMap', stores[s].cls, last'.path[1]) = last'.cls
              THEN /\ allowedToRead(restrictedMap', stores[s], last'.path[1])
                         = (last'.val.s \in {"r", "rw"})
                   /\ allowedToWrite(restrictedMap', stores[s], last'.path[1])
                         = (last'.val.s \in {"w", "rw"})
              ELSE /\ allowedToRead(restrictedMap', stores[s], last'.path[1])
                         = allowedToRead(restrictedMap, stores[s], last'.path[1])
                   /\ allowedToWrite(restrictedMap', stores[s], last'.path[1])
                         = allowedToWrite(restrictedMap, stores[s], last'.path[1]) ]_vars

\* The pair e of an object is written in the data map d: a plain object value
\* as a Store, any other value as itself.
PairWritten(d, e) ==
    IF e.v.t = "object" THEN MapGet(d, e.k[1]).t = "store" ELSE MapGet(d, e.k[1]) = e.v

\* The slot of the pair e is the same in the data maps d and d2.
PairUntouched(d, d2, e) ==
    /\ (e.k[1] \in DOMAIN d) = (e.k[1] \in DOMAIN d2)
    /\ MapGet(d, e.k[1]) = MapGet(d2, e.k[1])

\* The pairs of es whose key the store may not write.
DeniedPairs(s, es) ==
    {j \in 1..Len(es) : ~allowedToWrite(restrictedMap, stores[s], es[j].k[1])}

\* C15: a writeEntries that fails leaves every pair before the failing one
\* written and every pair after it untouched; the failing pair is the first
\* one whose key the store may not write, when there is one.
C15_NoRollback ==
    [][ ( last'.op = "writeEntries" /\ ops' = ops + 1 )
        => LET es == ObjectEntries(last'.val.s)
               d == stores[last'.s].data
               d2 == stores'[last'.s].data
               denied == DeniedPairs(last'.s, es)
           IN /\ last'.err # "none" =>
                    \E i \in 1..Len(es) :
                       /\ \A j \in 1..(i - 1) : PairWritten(d2, es[j])
                       /\ \A j \in (i + 1)..Len(es) : PairUntouched(d, d2, es[j])
              /\ denied # {} =>
                    LET i == CHOOSE i \in denied : \A j \in denied : i <= j
                    IN /\ last'.err = "Error"
                       /\ \A j \in 1..(i - 1) : PairWritten(d2, es[j])
                       /\ \A j \in i..Len(es) : PairUntouched(d, d2, es[j]) ]_vars

\* C15's case: writeEntries({a: 1, b: {z: 2}, c: 3}) failed on b, with a
\* written and neither b nor c in the store.
C15_Witness ==
    /\ last.op = "writeEntries"
    /\ last.err = "Error"
    /\ last.val = Obj("abc")
    /\ MapGet(stores[last.s].data, "a") = Num(1)
    /\ "b" \notin DOMAIN stores[last.s].data
    /\ "c" \notin DOMAIN stores[last.s].data

\* The gate of a single-segment call refuses it: the segment is empty or the
\* store does not grant the permission the operation needs.
Refused(op, s, key) ==
    \/ key = ""
    \/ op = "read" /\ ~allowedToRead(restrictedMap, stores[s], key)
    \/ op = "write" /\ ~allowedToWrite(restrictedMap, stores[s], key)

\* C16: a read or write of a single-segment path that the gate refuses fails
\* and leaves the data map of every store as it was.
C16_RefusalChangesNothing ==
    [][ ( /\ last'.op \in {"read", "write"}
          /\ ops' = ops + 1
          /\ Len(last'.path) = 1
          /\ Refused(last'.op, last'.s, last'.path[1]) )
        => /\ last'.err = "Error"
           /\ \A s \in 1..Len(stores) : stores'[s].data = stores[s].data ]_vars

\* C16's case: the admin store refused write("name", v) and holds no entry.
C16_Witness ==
    /\ last.op = "write"
    /\ last.s = Admin
    /\ last.path = <<"name">>
    /\ last.err = "Error"
    /\ "name" \notin DOMAIN stores[Admin].data

\* C17: every read and every write of a path that has an empty segment fails.
C17_EmptySegmentFails ==
    ( /\ last.op \in {"read", "write"}
      /\ \E i \in 1..Len(last.path) : last.path[i] = "" )
    => last.err # "none"

\* C18: a read whose first segment is non-empty and readable returns
\* undefined when data has no entry for the segment and the instance has no
\* field of that name, and returns the entry itself when the entry is a value
\* that is neither a Store nor a function, whatever segments remain.
C18_MissingKeyReadsUndefined ==
    [][ ( /\ last'.op = "read"
          /\ ops' = ops + 1
          /\ Head(last'.path) # ""
          /\ allowedToRead(restrictedMap, stores[last'.s], Head(last'.path)) )
        => LET d == stores[last'.s].data
               k == Head(last'.path)
           IN /\ ( k \notin DOMAIN d /\ k \notin OwnFields(stores[last'.s]) )
                 => ( last'.err = "none" /\ last'.res = Undef )
              /\ ( k \in DOMAIN d /\ Truthy(d[k]) /\ d[k].t \notin {"store", "function"} )
                 => ( last'.err = "none" /\ last'.res = d[k] ) ]_vars

\* C19: read, write, writeEntries and entries change no registry entry and no
\* store's defaultPolicy, so every store answers allowedToRead and
\* allowedToWrite after the call as before it.
C19_AccessLeavesPermissions ==
    [][ ( last'.op \in {"read", "write", "writeEntries", "entries"} /\ ops' = ops + 1 )
        => /\ restrictedMap' = restrictedMap
           /\ \A s \in 1..Len(stores) :
                 /\ stores'[s].defaultPolicy = stores[s].defaultPolicy
                 /\ \A f \in {"a", "name", "defaultPolicy"} :
                       stores'[s] # stores[s] =>
                       /\ allowedToRead(restrictedMap', stores'[s], f)
                             = allowedToRead(restrictedMap, stores[s], f)
                       /\ allowedToWrite(restrictedMap', stores'[s], f)
                             = allowedToWrite(restrictedMap, stores[s], f) ]_vars

\* C19's case: write("defaultPolicy", "none") succeeded: the value is an entry
\* of data and the store's policy is still 'rw'.
C19_Witness ==
    /\ last.op = "write"
    /\ last.path = <<"defaultPolicy">>
    /\ last.err = "none"
    /\ MapGet(stores[last.s].data, "defaultPolicy") = Str("none")
    /\ stores[last.s].defaultPolicy = "rw"
    /\ allowedToWrite(restrictedMap, stores[last.s], "defaultPolicy")

\* C20: for every store and every readable key that has an entry in data
\* which is not a function, read(k) returns the value of that entry, whatever
\* it is.
C20_DataEntryFirst ==
    \A s \in 1..Len(stores) :
        \A k \in DOMAIN stores[s].data :
            ( /\ allowedToRead(restrictedMap, stores[s], k)
              /\ stores[s].data[k].t # "function" )
            => /\ read(restrictedMap, World, s, <<k>>).err = "none"
               /\ read(restrictedMap, World, s, <<k>>).res = stores[s].data[k]

\* C21: in every reachable state no data map of any store has the empty
\* string as a key.
C21_NoEmptyKey ==
    \A s \in 1..Len(stores) : "" \notin DOMAIN stores[s].data

\* C21's case: writeEntries({x: 1, "": 2}) failed on the empty key after it
\* wrote x, and the store has no empty key.
C21_Witness ==
    /\ last.op = "writeEntries"
    /\ last.val = Obj("blank")
    /\ last.err = "Error"
    /\ MapGet(stores[last.s].data, "x") = Num(1)
    /\ "" \notin DOMAIN stores[last.s].data

\* C22: Restrict(permission, K) with a non-empty key K sets the registry
\* entry of K, and the decorator it returns, applied to a field of a class,
\* leaves the registry entry of that class and field as it was.
C22_ExplicitKeyOnly ==
    [][ ( last'.op = "Restrict" /\ ops' = ops + 1 /\ TruthyPath(last'.key) )
        => /\ RegGet(restrictedMap', last'.key) = last'.val.s
           /\ ( /\ ClassName(last'.cls) # ""
                /\ buildKey(ClassName(last'.cls), last'.path[1]) # last'.key )
              => LET classKey == buildKey(ClassName(last'.cls), last'.path[1])
                 IN /\ (classKey \in DOMAIN restrictedMap') = (classKey \in DOMAIN restrictedMap)
                    /\ RegGet(restrictedMap', classKey) = RegGet(restrictedMap, classKey) ]_vars

\* The classes of the chain of c, as a set.
Ancestry(c) == {Chain(c)[i] : i \in 1..Len(Chain(c))}

\* C23: a declaration applied to field F of class A leaves allowedToRead(F)
\* and allowedToWrite(F) unchanged on every instance of a class that is
\* neither A nor a descendant of A.
C23_ClassQualified ==
    [][ ( /\ last'.op = "Restrict"
          /\ ops' = ops + 1
          /\ ~TruthyPath(last'.key)
          /\ ClassName(last'.cls) # "" )
        => \A s \in NamedInstances :
              last'.cls \notin Ancestry(stores[s].cls)
              => /\ allowedToRead(restrictedMap', stores[s], last'.path[1])
                       = allowedToRead(restrictedMap, stores[s], last'.path[1])
                 /\ allowedToWrite(restrictedMap', stores[s], last'.path[1])
                       = allowedToWrite(restrictedMap, stores[s], last'.path[1]) ]_vars

\* C24: the calls of read and write that one read(p) or write(p, v) nests are
\* never more than p has segments, on cyclic store graphs too (the calls made
\* by function values aside: no function value runs in the step).
C24_DepthWithinPath ==
    [][ ( last'.op \in {"read", "write"} /\ ops' = ops + 1 /\ fns' = fns )
        => last'.depth <= Len(last'.path) ]_vars

\* The value key k of store s resolves to on the heap W: its data entry, or
\* the instance field behind it.
Resolved(W, s, k) == readSlot(W, s, k).res

\* The heap after the step.
WorldAfter == [World EXCEPT !.stores = stores', !.fns = fns']

\* C25: a write or writeEntries call leaves the value resolved by every key
\* that does not grant write in its store as it was, whatever the path.
C25_UnwritableKeyKept ==
    [][ ( last'.op \in {"write", "writeEntries"} /\ ops' = ops + 1 )
        => \A s \in 1..Len(stores) :
              \A k \in DOMAIN stores[s].data \cup DOMAIN stores'[s].data :
                 ~allowedToWrite(restrictedMap, stores[s], k)
                 => Resolved(WorldAfter, s, k) = Resolved(World, s, k) ]_vars

C27_FailedWriteChangesNothing ==
    [][ ( /\ last'.op = "write"
          /\ ops' = ops + 1
          /\ Len(last'.path) > 1
          /\ last'.err = "Error"
          /\ fns' = fns )
        => /\ Len(stores') = Len(stores)
           /\ \A s \in 1..Len(stores) : stores'[s].data = stores[s].data ]_vars

\* The permission the declarations of the root class Store give key k, 'rw'
\* when there is none.
RootPermission(k) ==
    IF buildKey("Store", k) \in DOMAIN restrictedMap
    THEN restrictedMap[buildKey("Store", k)]
    ELSE "rw"

\* C28: a store that write or writeEntries creates is an instance of the root
\* class Store with defaultPolicy 'rw' and no fields, and it answers the
\* permission queries from the declarations of Store alone (steps in which a
\* function value runs aside: its body creates stores of its own).
C28_CreatedStoresAreRoot ==
    [][ ( last'.op \in {"write", "writeEntries"} /\ ops' = ops + 1 /\ fns' = fns )
        => \A n \in (Len(stores) + 1)..Len(stores') :
              /\ stores'[n].cls = "Store"
              /\ stores'[n].defaultPolicy = "rw"
              /\ stores'[n].fields = EmptyMap
              /\ \A k \in QueryKeys \cup {"a", "b", "x"} :
                    /\ allowedToRead(restrictedMap, stores'[n], k)
                          = (RootPermission(k) \in readPermissions)
                    /\ allowedToWrite(restrictedMap, stores'[n], k)
                          = (RootPermission(k) \in writePermissions) ]_vars

\* C28's case: a store whose defaultPolicy is not 'rw' got a child installed
\* by a write through it, and the child took the leaf.
C28_Witness ==
    /\ last.op = "write"
    /\ last.err = "none"
    /\ last.path = <<"a", "b">>
    /\ stores[last.s].defaultPolicy = "r"
    /\ MapGet(stores[last.s].data, "a").t = "store"
    /\ MapGet(stores[last.s].data, "a").n > Len(InitWorld.stores)
    /\ stores[MapGet(stores[last.s].data, "a").n].cls = "Store"
    /\ stores[MapGet(stores[last.s].data, "a").n].defaultPolicy = "rw"
    /\ MapGet(stores[MapGet(stores[last.s].data, "a").n].data, "b") = last.val

\* C29: write and writeEntries leave what entries() returns on every store as
\* it was, and after a successful write(f, v) of a primitive v on a readable
\* declared field f, read(f) returns v.
C29_FieldsKeptValueRead ==
    [][ ( last'.op \in {"write", "writeEntries"} /\ ops' = ops + 1 )
        => /\ \A s \in 1..Len(stores) :
                 entries(restrictedMap, WorldAfter, s) = entries(restrictedMap, World, s)
           /\ ( /\ last'.op = "write"
                /\ last'.err = "none"
                /\ Len(last'.path) = 1
                /\ last'.path[1] \in DOMAIN stores[last'.s].fields
                /\ last'.val \in Primitives
                /\ allowedToRead(restrictedMap, stores[last'.s], last'.path[1]) )
              => /\ read(restrictedMap, WorldAfter, last'.s, last'.path).err = "none"
                 /\ read(restrictedMap, WorldAfter, last'.s, last'.path).res = last'.val ]_vars

\* In the step, key k of store s held a Store other than s and holds a newly
\* created one after it, whose entries are the own keys of object o and no
\* more; the Store held before is as it was.
Replaced(s, k, o) ==
    LET old == MapGet(stores[s].data, k)
        new == MapGet(stores'[s].data, k)
    IN ( old.t = "store" /\ old.n # s )
       => /\ new.t = "store"
          /\ new.n > Len(stores)
          /\ stores'[old.n] = stores[old.n]
          /\ DOMAIN stores'[new.n].data = {j[1] : j \in OwnKeys(o)}

\* C30: a plain object written by write or by writeEntries at a key that
\* holds a Store puts a new Store there, filled from the object alone, and
\* leaves the Store held before unmodified.
C30_ReplacedNotMerged ==
    [][ ( ops' = ops + 1 /\ last'.err = "none" )
        => /\ ( /\ last'.op = "write"
                /\ Len(last'.path) = 1
                /\ ConstructorIsObject(last'.val) )
              => Replaced(last'.s, last'.path[1], last'.val.s)
           /\ last'.op = "writeEntries"
              => \A i \in 1..Len(ObjectEntries(last'.val.s)) :
                    IsNonArrayObject(ObjectEntries(last'.val.s)[i].v)
                    => Replaced(last'.s, ObjectEntries(last'.val.s)[i].k[1],
                                ObjectEntries(last'.val.s)[i].v.s) ]_vars

\* C30's case: writeEntries({k: {y: 2}}) came after {x: 1} was put under k:
\* k:y reads 2, k:x reads undefined, and the Store that holds x is still there,
\* no longer under k.
C30_Witness ==
    /\ last.op = "writeEntries"
    /\ last.val = Obj("ky")
    /\ last.err = "none"
    /\ read(restrictedMap, World, last.s, <<"k", "y">>).res = Num(2)
    /\ read(restrictedMap, World, last.s, <<"k", "x">>).err = "none"
    /\ read(restrictedMap, World, last.s, <<"k", "x">>).res = Undef
    /\ \E n \in 1..Len(stores) :
          /\ n # MapGet(stores[last.s].data, "k").n
          /\ stores[n].cls = "Store"
          /\ DOMAIN stores[n].data = {"x"}
          /\ stores[n].data["x"] = Num(1)

====
